---- MODULE Spec2Model ----
(***************************************************************************)
(* FastVLM inference pipeline (src/src/fastvlm/fastvlm.rs): one request    *)
(* runs rgba_to_dynamic_image, get_image_features, tokenization,           *)
(* get_token_embeddings, fuse_image_text_embeddings and the autoregressive *)
(* loop of generate_with_decoder.  The three networks and the tokenizer    *)
(* are external: their outputs are nondeterministic choices here.          *)
(***************************************************************************)
EXTENDS Integers, Sequences, FiniteSets, TLC

\* ------------------------------------------------------------ constants
EOS_TOKEN_ID == 151645
IM_END_TOKEN_ID == 151645
IMAGE_TOKEN_ID == 151646
max_image_tokens == 256
num_layers == 24
\* the cap lets the image placeholder's logit through
vocab_cap_with_placeholder == IMAGE_TOKEN_ID + 1
\* logits.shape()[2].min(151646)
vocab_cap == 151646

\* ------------------------------------------------------------ bounds
\* config.max_response_length ranges over 0..MaxResponseLength
MaxResponseLength == 3
\* the tokenized prompt has 1..MaxLt ids
MaxLt == 3
\* request widths 1..MaxWidth (height 1), besides the overflowing 2^15 x 2^15
MaxWidth == 2
\* a request buffer holds up to MaxPad pixels more than width*height
MaxPad == 1
\* the vision encoder returns up to max_image_tokens + ExtraImage positions
ExtraImage == 1

Min(a, b) == IF a <= b THEN a ELSE b

\* ------------------------------------------------------------ byte counts
\* A byte count 4*q + r (q whole RGBA pixels, r stray bytes, r < 4).  Counts
\* reach 2^32 and beyond, so they are kept as the pair rather than one number.
Size(q, r) == [q |-> q, r |-> r]

SizeLess(a, b) == a.q < b.q \/ (a.q = b.q /\ a.r < b.r)

\* Vec<u8>: the first len bytes of the caller's byte source src.
Bytes(src, len) == [src |-> src, len |-> len]

NoBytes == Bytes("none", Size(0, 0))

\* data.into_iter().take(n).collect()
Take(data, n) == IF SizeLess(n, data.len) THEN Bytes(data.src, n) ELSE data

NoImage == [width |-> 0, height |-> 0, data |-> NoBytes]

RgbaOk(w, h, data) ==
    [kind |-> "ok", msg |-> "", image |-> [width |-> w, height |-> h, data |-> data]]

RgbaErr(msg) == [kind |-> "err", msg |-> msg, image |-> NoImage]

RgbaPanic == [kind |-> "panic", msg |-> "attempt to multiply with overflow", image |-> NoImage]

\* 2^32 / 4: a u32 byte count 4*x wraps when x reaches it
U32Quads == 2^30

\* (width * height * 4) as usize, in u32 arithmetic.  With overflow checks
\* (debug profile) an overflowing product panics, without them it wraps:
\* (4*x) mod 2^32 = 4 * (x mod 2^30).  Requests keep width*height below 2^31.
expected_size(w, h, checks) ==
    IF w * h >= U32Quads /\ checks
    THEN [kind |-> "panic", size |-> Size(0, 0)]
    ELSE [kind |-> "ok", size |-> Size((w * h) % U32Quads, 0)]

\* image::ImageBuffer::from_raw: Some exactly when the buffer holds at least
\* width*height*4 bytes (computed without wraparound).
from_raw_is_some(w, h, data) == ~SizeLess(data.len, Size(w * h, 0))

RECURSIVE rgba_to_dynamic_image(_, _, _, _)
rgba_to_dynamic_image(data, w, h, checks) ==
    LET e == expected_size(w, h, checks) IN
    IF e.kind = "panic" THEN RgbaPanic
    ELSE IF data.len # e.size
         THEN IF SizeLess(e.size, data.len)
              THEN rgba_to_dynamic_image(Take(data, e.size), w, h, checks)
              ELSE RgbaErr("Image data length is less than expected size")
         ELSE IF from_raw_is_some(w, h, data)
              THEN RgbaOk(w, h, data)
              ELSE RgbaErr("Failed to create image buffer")

\* ------------------------------------------------------------ tensors
\* Array3<f32> of shape [1, Len(rows), dim]; a row is named by where it
\* comes from instead of by its dim numbers.
Row(src, idx) == [src |-> src, idx |-> idx]

ZeroRow == Row("zero", 0)

Tensor(rows, dim) == [rows |-> rows, dim |-> dim]

NoTensor == Tensor(<<>>, 0)

\* text_embeds of an embedding lookup over n ids
TextRows(n) == [i \in 1..n |-> Row("text", i - 1)]

\* image features of n positions
ImageRows(n) == [j \in 1..n |-> Row("image", j - 1)]

\* the slice taken one position late: lo+1..hi+1 in place of lo..hi
SliceAssign_shifted(dst, lo, hi, src) ==
    [i \in 1..Len(dst) |-> IF lo <= i /\ i < hi THEN src[i - lo + 1] ELSE dst[i]]

\* dst.slice_mut(s![.., lo..hi, ..]).assign(&src), 0-based half-open lo..hi
SliceAssign(dst, lo, hi, src) ==
    [i \in 1..Len(dst) |-> IF lo < i /\ i <= hi THEN src[i - lo] ELSE dst[i]]

FuseOk(t) == [kind |-> "ok", value |-> t]

FuseErr == [kind |-> "err", value |-> NoTensor]

FusePanic == [kind |-> "panic", value |-> NoTensor]

\* the width check left out
dims_match_unchecked(image_features, hidden_dim) == TRUE

\* image_features.shape()[2] != hidden_dim is the error case
dims_match(image_features, hidden_dim) == image_features.dim = hidden_dim

\* the cap left out
actual_image_tokens_uncapped(image_seq_len) == image_seq_len

\* let actual_image_tokens = image_seq_len.min(max_image_tokens)
actual_image_tokens(image_seq_len) == Min(image_seq_len, max_image_tokens)

fuse_image_text_embeddings(text_embeds, image_features, image_token_pos) ==
    LET text_seq_len == Len(text_embeds.rows)
        image_seq_len == Len(image_features.rows)
        hidden_dim == text_embeds.dim
        n == actual_image_tokens(image_seq_len)
        final_image_embeds == SubSeq(image_features.rows, 1, n)
        total_seq_len == text_seq_len + n
        zeros == [i \in 1..total_seq_len |-> ZeroRow]
        before == IF image_token_pos > 0
                  THEN SliceAssign(zeros, 0, image_token_pos,
                                   SubSeq(text_embeds.rows, 1, image_token_pos))
                  ELSE zeros
        middle == SliceAssign(before, image_token_pos, image_token_pos + n,
                              final_image_embeds)
        after == IF image_token_pos < text_seq_len
                 THEN SliceAssign(middle, image_token_pos + n, total_seq_len,
                                  SubSeq(text_embeds.rows, image_token_pos + 1, text_seq_len))
                 ELSE middle
    IN IF ~dims_match(image_features, hidden_dim) THEN FuseErr
       ELSE IF image_token_pos > text_seq_len THEN FusePanic
       ELSE FuseOk(Tensor(after, hidden_dim))

\* ------------------------------------------------------------ tokens
\* input_ids.iter().position(|&id| id == IMAGE_TOKEN_ID), 0-based, or -1 for None
RECURSIVE PositionFrom(_, _)
PositionFrom(ids, i) ==
    IF i > Len(ids) THEN -1
    ELSE IF ids[i] = IMAGE_TOKEN_ID THEN i - 1
    ELSE PositionFrom(ids, i + 1)

\* the middle rounded up
image_token_position_of_round_up(ids) ==
    IF PositionFrom(ids, 1) >= 0 THEN PositionFrom(ids, 1) ELSE (Len(ids) + 1) \div 2

\* .position(..).unwrap_or(input_ids.len() / 2)
image_token_position_of(ids) ==
    IF PositionFrom(ids, 1) >= 0 THEN PositionFrom(ids, 1) ELSE Len(ids) \div 2

\* an inclusive range: 0..=max_response_length
LoopContinues_inclusive(s, max_response_length) == s <= max_response_length

\* for step in 0..self.config.max_response_length: the body runs again
LoopContinues(s, max_response_length) == s < max_response_length

\* the check made against the image token's id
IsEndToken_wrong_id(id) == id = IMAGE_TOKEN_ID

\* next_token_id == EOS_TOKEN_ID || next_token_id == IM_END_TOKEN_ID
IsEndToken(id) == id = EOS_TOKEN_ID \/ id = IM_END_TOKEN_ID

\* ------------------------------------------------------------ result text
Placeholder == [kind |-> "literal", str |-> "No response generated.", ids |-> <<>>, trimmed |-> FALSE]

\* tokenizer.decode(&generated_tokens, true): the tokenizer's text for ids
Decoded(ids) == [kind |-> "decoded", str |-> "", ids |-> ids, trimmed |-> FALSE]

\* .trim().to_string(): the literal has no surrounding whitespace
Trim(t) == IF t.kind = "decoded" THEN [t EXCEPT !.trimmed = TRUE] ELSE t

NoText == [kind |-> "none", str |-> "", ids |-> <<>>, trimmed |-> FALSE]

NoResult == [kind |-> "none", text |-> NoText, msg |-> ""]

Ok(text) == [kind |-> "ok", text |-> text, msg |-> ""]

Err(msg) == [kind |-> "err", text |-> NoText, msg |-> msg]

Panicked(msg) == [kind |-> "panic", text |-> NoText, msg |-> msg]

\* the is_empty test left out
generated_text_of_unchecked(tokens) == Trim(Decoded(tokens))

\* the tail of generate_with_decoder
generated_text_of(tokens) ==
    IF tokens = <<>> THEN Placeholder ELSE Trim(Decoded(tokens))

\* ------------------------------------------------------------ image processor
\* FastVLMImageProcessor::new: crop_size
crop_size == <<1024, 1024>>

\* scale_x.min(scale_y) as the fraction target/orig of the axis it comes from
Scale(orig_width, orig_height, target_width, target_height) ==
    IF target_width * orig_height <= target_height * orig_width
    THEN [num |-> target_width, den |-> orig_width]
    ELSE [num |-> target_height, den |-> orig_height]

\* the sides m, among those below 55 and those from 1012 to 1100, for which
\* the f32 product m * (1024 / m) is below 1024: the quotient was rounded down
F32Shortfall1024 == {41, 47}

\* (orig as f32 * scale) as u32: the product cut to an integer.  The f32
\* result is the exact one except on the axis that sets the scale, where a
\* quotient rounded down leaves the product just below the target.
Scaled(orig, scale) ==
    LET exact == (orig * scale.num) \div scale.den
    IN IF orig = scale.den /\ scale.den \in F32Shortfall1024 THEN exact - 1 ELSE exact

NoCanvas == [kind |-> "none", width |-> 0, height |-> 0, new_width |-> 0,
             new_height |-> 0, x_offset |-> 0, y_offset |-> 0]

\* the canvas has the size of the content instead of the target's
CanvasDims_unpadded(target_width, target_height, new_width, new_height) ==
    <<new_width, new_height>>

\* image::RgbImage::new(target_width, target_height)
CanvasDims(target_width, target_height, new_width, new_height) ==
    <<target_width, target_height>>

\* resize_with_padding: the canvas and where the resized content lies in it;
\* target - new is u32 arithmetic and every put_pixel is bounds-checked
resize_with_padding(orig_width, orig_height, target_width, target_height) ==
    LET scale == Scale(orig_width, orig_height, target_width, target_height)
        new_width == Scaled(orig_width, scale)
        new_height == Scaled(orig_height, scale)
        canvas == CanvasDims(target_width, target_height, new_width, new_height)
    IN IF new_width > target_width \/ new_height > target_height
       THEN [NoCanvas EXCEPT !.kind = "panic"]
       ELSE [kind |-> "ok", width |-> canvas[1], height |-> canvas[2],
             new_width |-> new_width, new_height |-> new_height,
             x_offset |-> (target_width - new_width) \div 2,
             y_offset |-> (target_height - new_height) \div 2]

\* to_tensor: Array4::zeros((1, 3, height, width)) of the image it is given
to_tensor(canvas) == <<1, 3, canvas.height, canvas.width>>

\* preprocess: the canvas and the tensor's shape
preprocess(orig_width, orig_height) ==
    LET canvas == resize_with_padding(orig_width, orig_height, crop_size[1], crop_size[2])
    IN [kind |-> canvas.kind, processed |-> canvas,
        pixel_values |-> IF canvas.kind = "ok" THEN to_tensor(canvas) ELSE <<>>]

\* ------------------------------------------------------------ prompt
\* A text is a sequence of pieces.  The three pieces "<", "image", ">" in a
\* row spell the image placeholder; the delimiters of the template are pieces
\* of their own.
ImagePlaceholder == <<"<", "image", ">">>

\* the template up to the user text: the system turn, and the user turn with
\* the image placeholder and a newline
TemplateHead ==
    <<"<|im_start|>", "system\nYou are a helpful vision assistant that describes images accurately.",
      "<|im_end|>", "\n", "<|im_start|>", "user\n">> \o ImagePlaceholder \o <<"\n">>

\* the template after the user text: the open assistant turn
TemplateTail == <<"<|im_end|>", "\n", "<|im_start|>", "assistant\n">>

\* format!("...<|im_start|>user\n<image>\n{}<|im_end|>\n<|im_start|>assistant\n", text)
format_chat_template(t) == TemplateHead \o t \o TemplateTail

\* the id of a piece that is not part of a placeholder
PieceId(piece) ==
    IF piece = "<|im_start|>" THEN 151644
    ELSE IF piece = "<|im_end|>" THEN IM_END_TOKEN_ID
    ELSE 1

\* tokenizer.encode(formatted_prompt, true): an added token is matched
\* wherever its characters stand in the input, the rest goes to ordinary ids
RECURSIVE Encode(_, _)
Encode(input, i) ==
    IF i > Len(input) THEN <<>>
    ELSE IF i + 2 <= Len(input) /\ SubSeq(input, i, i + 2) = ImagePlaceholder
         THEN <<IMAGE_TOKEN_ID>> \o Encode(input, i + 3)
         ELSE <<PieceId(input[i])>> \o Encode(input, i + 1)

\* ------------------------------------------------------------ state
VARIABLES
    config,                 \* FastVLMConfig: [max_response_length, default_prompt]
    overflow_checks,        \* the build's overflow-checks setting
    pc,                     \* position of the request in analyze_frame_sync
    width, height, image_data, prompt,      \* the request's arguments
    image,                  \* the DynamicImage of rgba_to_dynamic_image
    processed,              \* preprocess: the letterboxed canvas
    pixel_values,           \* preprocess: the shape of the Array4
    image_features,         \* get_image_features' Array3
    input_ids,              \* the tokenized prompt
    image_token_position,
    input_embeds,           \* get_token_embeddings' Array3
    fused_embeds,
    step,                   \* the loop counter of generate_with_decoder
    generated_tokens,
    current_inputs_embeds,
    current_attention_mask,
    current_position_ids,
    past_key_values,        \* cached_len of each of the num_layers*2 tensors
    new_past_key_values,
    model_inputs,           \* the named inputs of the decoder's last run
    present_names,          \* the output each new_past_key_values entry was read from
    decoder_logits,         \* the shape of the logits of the decoder's last run
    last_token_logits,      \* the slice sample_token is given
    next_token_id,
    vision_calls, embed_calls, decoder_calls,   \* network runs of the request
    result,                 \* what analyze_frame_sync returned
    user_text,              \* the text given to format_chat_template
    formatted_prompt,       \* what format_chat_template made of it
    model, model_path,      \* FastVLMClient's fields
    store,                  \* the model directory: whether it exists, and its files
    other_store,            \* a second directory a client may be pointed at
    download_result,        \* what the last download_fastvlm_models returned
    init_result,            \* what the last initialize returned
    in_flight,              \* analyze calls between their start and their return
    earlier,                \* how the call before this one ended
    logits, temperature,    \* sample_token's arguments
    random_val,             \* its draw, in thousandths
    sampled                 \* the id it returned

argVars == <<width, height, image_data, prompt>>

prepVars == <<image, processed, pixel_values, image_features, input_ids, image_token_position, input_embeds, fused_embeds>>

loopVars == <<step, generated_tokens, current_inputs_embeds, current_attention_mask,
              current_position_ids, past_key_values, new_past_key_values,
              model_inputs, present_names, decoder_logits, last_token_logits,
              next_token_id>>

callVars == <<vision_calls, embed_calls, decoder_calls>>

sampleVars == <<logits, temperature, random_val, sampled>>

clientVars == <<model, model_path, store, other_store, init_result, download_result>>

promptVars == <<user_text, formatted_prompt>>

\* what no call changes
staticVars == <<config, overflow_checks, sampleVars, clientVars>>

\* what no step of a request changes
fixedVars == <<staticVars, promptVars>>

\* what the steps inside a call leave alone
stepVars == <<fixedVars, in_flight, earlier>>

vars == <<fixedVars, pc, argVars, prepVars, loopVars, callVars, result, in_flight, earlier>>

\* ------------------------------------------------------------ client
\* the files FastVLM::new loads, in the order it loads them
LoadOrder ==
    <<"tokenizer.json", "vision_encoder.onnx", "embed_tokens.onnx", "decoder_model_merged.onnx">>

\* FASTVLM_MODELS: the files download_fastvlm_models fetches, in order
FASTVLM_MODELS ==
    <<"vision_encoder.onnx", "embed_tokens.onnx", "decoder_model_merged.onnx", "tokenizer.json">>

Artifacts == {LoadOrder[i] : i \in 1..4}

\* a model directory: whether it exists, the files that are whole and the
\* files that were created and not written to their end
DirWith(files, partial) == [exists |-> TRUE, files |-> files, partial |-> partial]

NoDir == [exists |-> FALSE, files |-> {}, partial |-> {}]

Dir(files) == DirWith(files, {})

\* Option<FastVLM> and Option<String>
NoneModel == [some |-> FALSE, loaded |-> {}, data_dir |-> ""]

SomeModel(data_dir, files) == [some |-> TRUE, loaded |-> files, data_dir |-> data_dir]

NonePath == [some |-> FALSE, path |-> ""]

SomePath(path) == [some |-> TRUE, path |-> path]

\* the loads FastVLM::new attempts on a directory with these files: each
\* `?` returns at the first file that does not load
Attempted(files) ==
    LET missing == {i \in 1..4 : LoadOrder[i] \notin files}
    IN IF missing = {} THEN LoadOrder
       ELSE SubSeq(LoadOrder, 1, CHOOSE i \in missing : \A j \in missing : i <= j)

\* the tokenizer alone decides
LoadsAll_tokenizer_only(files) == "tokenizer.json" \in files

\* every load of FastVLM::new succeeded
LoadsAll(files) == \A i \in 1..4 : LoadOrder[i] \in files

\* FastVLM::new(data_dir, config)
FastVLM_new(data_dir, files) ==
    IF LoadsAll(files)
    THEN [kind |-> "ok", model |-> SomeModel(data_dir, files), attempted |-> Attempted(files)]
    ELSE [kind |-> "err", model |-> NoneModel, attempted |-> Attempted(files)]

NoInit == [kind |-> "none", attempted |-> <<>>]

NoDownload == [kind |-> "none", processed |-> <<>>, skipped |-> {}]

\* a borrow of the instance that other calls may overlap
ExclusiveBorrow_shared(calls) == TRUE

\* `&mut self`: a call starts only while no other call holds the instance
ExclusiveBorrow(calls) == calls = 0

\* FastVLMClient::is_initialized and get_model_path
is_initialized == model.some

get_model_path == model_path

\* model directories a client may be pointed at: absent, complete, or with
\* one of the four files missing
StoreContents ==
    {NoDir, Dir(Artifacts)} \cup {Dir(Artifacts \ {a}) : a \in Artifacts}

\* the fields of the function specifications, which use no client
NoClient ==
    /\ model = NoneModel /\ model_path = NonePath
    /\ store = NoDir /\ other_store = NoDir
    /\ init_result = NoInit /\ download_result = NoDownload
    /\ in_flight = 0 /\ earlier = "none"

\* Option<String>: the prompt argument of an analyze call
NonePrompt == [some |-> FALSE, text |-> <<>>]

SomePrompt(t) == [some |-> TRUE, text |-> t]

\* FastVLMConfig::default's default_prompt
DefaultPrompt == <<"Describe this image briefly.">>

\* the configured prompt is used whatever the caller passed
prompt_or_default_ignores_prompt(p, cfg) == cfg.default_prompt

\* prompt.unwrap_or_else(|| self.config.default_prompt.clone())
prompt_or_default(p, cfg) == IF p.some THEN p.text ELSE cfg.default_prompt

\* ------------------------------------------------------------ inputs
\* the prompt of a request: absent, or a text of the caller's
CallerPrompts == {NonePrompt, SomePrompt(<<"x">>)}

\* (width, height) of a request: small images and one whose byte count is 2^32
RequestDims == {<<w, 1>> : w \in 1..MaxWidth} \cup {<<2^15, 2^15>>}

\* buffer lengths around width*height*4: one pixel short up to MaxPad pixels
\* long, each with or without one stray byte
RequestSizes(w, h) ==
    {Size(q, r) : q \in (w * h - 1)..(w * h + MaxPad), r \in 0..1}

\* what tokenizer.encode returns for the formatted prompt
PromptTokenIds == {1, IMAGE_TOKEN_ID}

RECURSIVE SeqsOfLen(_, _)
SeqsOfLen(S, n) ==
    IF n = 0 THEN {<<>>}
    ELSE {Append(s, x) : s \in SeqsOfLen(S, n - 1), x \in S}

PromptEncodings == UNION {SeqsOfLen(PromptTokenIds, n) : n \in 1..MaxLt}

\* hidden width of the embedding table, and widths the vision encoder may have
TextDim == 2
VisionDims == {2, 3}

\* sequence lengths of the vision encoder's output
VisionLens == {1, max_image_tokens + ExtraImage}

\* last dimension of the decoder's logits
DecoderVocabs == {2, vocab_cap + 1}

\* logits.slice(s![0, seq_len-1, ..vocab_size]): the row taken and its entries
NoSlice == [position |-> -1, len |-> 0]

\* ids sample_token can return for logits cut to vocab_size entries: an index
\* below vocab_size; these stand for all of them
SampledIds(vocab_size) == {id \in {0, 1, EOS_TOKEN_ID, IMAGE_TOKEN_ID} : id < vocab_size}

\* ------------------------------------------------------------ pipeline
Init ==
    /\ config \in [max_response_length : 0..MaxResponseLength, default_prompt : {DefaultPrompt}]
    /\ overflow_checks \in BOOLEAN
    /\ model = NoneModel /\ model_path = NonePath
    /\ store \in StoreContents
    /\ other_store = NoDir
    /\ init_result = NoInit /\ download_result = NoDownload
    /\ in_flight = 0 /\ earlier = "none"
    /\ user_text = <<>> /\ formatted_prompt = <<>>
    /\ pc = "idle"
    /\ width = 0 /\ height = 0 /\ image_data = NoBytes /\ prompt = NonePrompt
    /\ image = NoImage
    /\ processed = NoCanvas /\ pixel_values = <<>>
    /\ image_features = NoTensor
    /\ input_ids = <<>>
    /\ image_token_position = 0
    /\ input_embeds = NoTensor
    /\ fused_embeds = NoTensor
    /\ step = 0
    /\ generated_tokens = <<>>
    /\ current_inputs_embeds = NoTensor
    /\ current_attention_mask = <<>>
    /\ current_position_ids = <<>>
    /\ past_key_values = <<>>
    /\ new_past_key_values = <<>>
    /\ model_inputs = <<>> /\ present_names = <<>>
    /\ decoder_logits = <<>> /\ last_token_logits = NoSlice
    /\ next_token_id = -1
    /\ vision_calls = 0 /\ embed_calls = 0 /\ decoder_calls = 0
    /\ result = NoResult
    /\ logits = <<>> /\ temperature = 0 /\ random_val = 0 /\ sampled = -1

\* the locals of a request, as they are before it starts
FreshLocals ==
    /\ processed' = NoCanvas /\ pixel_values' = <<>>
    /\ image_features' = NoTensor
    /\ input_ids' = <<>>
    /\ image_token_position' = 0
    /\ input_embeds' = NoTensor
    /\ fused_embeds' = NoTensor
    /\ step' = 0
    /\ generated_tokens' = <<>>
    /\ current_inputs_embeds' = NoTensor
    /\ current_attention_mask' = <<>>
    /\ current_position_ids' = <<>>
    /\ past_key_values' = <<>>
    /\ new_past_key_values' = <<>>
    /\ model_inputs' = <<>> /\ present_names' = <<>>
    /\ decoder_logits' = <<>> /\ last_token_logits' = NoSlice
    /\ next_token_id' = -1
    /\ vision_calls' = 0 /\ embed_calls' = 0 /\ decoder_calls' = 0

\* the error is recorded and the failed step is taken again
Abort_retries(r) == pc' = pc /\ result' = r

\* a fatal error: the `?` returns it from analyze_frame_sync
Abort(r) == pc' = "done" /\ result' = r

\* a caller invokes analyze_frame_sync(image_data, width, height, prompt)
AnalyzeFrameSync ==
    /\ ExclusiveBorrow(in_flight)
    /\ model.some
    /\ in_flight' = in_flight + 1
    /\ \E d \in RequestDims : \E len \in RequestSizes(d[1], d[2]) :
         /\ width' = d[1] /\ height' = d[2]
         /\ image_data' = Bytes("caller", len)
    /\ \E p \in CallerPrompts :
         /\ prompt' = p
         /\ user_text' = prompt_or_default(p, config)
    /\ pc' = "rgba"
    /\ UNCHANGED <<staticVars, formatted_prompt, earlier, prepVars, loopVars, callVars, result>>

\* FastVLM::analyze_frame: the whole of analyze_frame_sync, run as one task
analyze_frame == AnalyzeFrameSync

\* FastVLMClient::analyze_image: the call on the loaded model, or the error
\* of a client that has none
AnalyzeImage ==
    \/ analyze_frame
    \/ /\ ExclusiveBorrow(in_flight)
       /\ ~model.some
       /\ in_flight' = in_flight + 1
       /\ Abort(Err("model not initialized, call initialize() first"))
       /\ UNCHANGED <<fixedVars, earlier, argVars, prepVars, loopVars, callVars>>

\* where the download of a file fails: before the file is created (the
\* request, its status, File::create) or after (the stream, a write, the flush)
DownloadFailures == {"request", "stream"}

\* `if file_path.exists() { continue; }`: a file needs its download when no
\* file of that name is there
NeedsDownload(dir, name) == name \notin dir.files \cup dir.partial

\* download_fastvlm_models(model_dir): the outcomes of a call on a directory.
\* create_dir_all fails, or the files are taken in the order of
\* FASTVLM_MODELS, those that exist are skipped, and the first download that
\* fails ends the call, or no download fails.  processed: the files the loop
\* came to; skipped: those of them it took as already there.
download_fastvlm_models(dir) ==
    LET needed == {i \in 1..4 : NeedsDownload(dir, FASTVLM_MODELS[i])}
        Fetched(i) == {FASTVLM_MODELS[n] : n \in {m \in needed : m < i}}
        Skipped(i) == {FASTVLM_MODELS[n] : n \in {m \in 1..4 : m < i /\ m \notin needed}}
    IN (IF dir.exists THEN {}
        ELSE {[ok |-> FALSE, store |-> dir, processed |-> <<>>, skipped |-> {}]})
       \cup {[ok |-> FALSE,
               store |-> DirWith(dir.files \cup Fetched(i),
                                 (dir.partial \ Fetched(i))
                                     \cup (IF f = "stream" THEN {FASTVLM_MODELS[i]} ELSE {})),
               processed |-> SubSeq(FASTVLM_MODELS, 1, i),
               skipped |-> Skipped(i)] : i \in needed, f \in DownloadFailures}
       \cup {[ok |-> TRUE,
               store |-> DirWith(dir.files \cup Fetched(5), dir.partial \ Fetched(5)),
               processed |-> FASTVLM_MODELS,
               skipped |-> Skipped(5)]}

\* `if !model_dir.exists() { download_fastvlm_models(model_dir).await?; }`
Downloads(dir) ==
    IF dir.exists THEN {[ok |-> TRUE, store |-> dir, processed |-> <<>>, skipped |-> {}]}
    ELSE download_fastvlm_models(dir)

\* initialize after a failure: the model held so far is dropped
InitializeOutcome_unloads_on_failure(path, d) ==
    IF ~d.ok
    THEN /\ init_result' = [kind |-> "err", attempted |-> <<>>]
         /\ model' = NoneModel /\ model_path' = NonePath
    ELSE LET r == FastVLM_new(path, d.store.files) IN
         /\ init_result' = [kind |-> r.kind, attempted |-> r.attempted]
         /\ IF r.kind = "ok"
            THEN model' = r.model /\ model_path' = SomePath(path)
            ELSE model' = NoneModel /\ model_path' = NonePath

\* initialize that keeps the path it already has
InitializeOutcome_keeps_first_path(path, d) ==
    IF ~d.ok
    THEN /\ init_result' = [kind |-> "err", attempted |-> <<>>]
         /\ UNCHANGED <<model, model_path>>
    ELSE LET r == FastVLM_new(path, d.store.files) IN
         /\ init_result' = [kind |-> r.kind, attempted |-> r.attempted]
         /\ IF r.kind = "ok"
            THEN /\ model' = r.model
                 /\ model_path' = IF model_path.some THEN model_path ELSE SomePath(path)
            ELSE UNCHANGED <<model, model_path>>

\* initialize from the download's outcome d on: a failed download or a failed
\* FastVLM::new returns through `?` before the fields are assigned
InitializeOutcome(path, d) ==
    IF ~d.ok
    THEN /\ init_result' = [kind |-> "err", attempted |-> <<>>]
         /\ UNCHANGED <<model, model_path>>
    ELSE LET r == FastVLM_new(path, d.store.files) IN
         /\ init_result' = [kind |-> r.kind, attempted |-> r.attempted]
         /\ IF r.kind = "ok"
            THEN model' = r.model /\ model_path' = SomePath(path)
            ELSE UNCHANGED <<model, model_path>>

\* FastVLMClient::initialize(Some("models"), config)
Initialize ==
    /\ ExclusiveBorrow(in_flight)
    /\ \E d \in Downloads(store) :
         /\ store' = d.store
         /\ InitializeOutcome("models", d)
    /\ UNCHANGED <<config, overflow_checks, sampleVars, promptVars, other_store, download_result,
                   pc, argVars, prepVars, loopVars, callVars, result, in_flight, earlier>>

\* FastVLMClient::initialize(Some("other"), config)
InitializeOther ==
    /\ ExclusiveBorrow(in_flight)
    /\ \E d \in Downloads(other_store) :
         /\ other_store' = d.store
         /\ InitializeOutcome("other", d)
    /\ UNCHANGED <<config, overflow_checks, sampleVars, promptVars, store, download_result,
                   pc, argVars, prepVars, loopVars, callVars, result, in_flight, earlier>>

\* the model is dropped and the path is kept
Cleanup_keeps_path ==
    /\ ExclusiveBorrow(in_flight)
    /\ model' = NoneModel
    /\ UNCHANGED <<config, overflow_checks, sampleVars, promptVars, model_path, store, other_store,
                   init_result, download_result, pc,
                   argVars, prepVars, loopVars, callVars, result, in_flight, earlier>>

\* FastVLMClient::cleanup
Cleanup ==
    /\ ExclusiveBorrow(in_flight)
    /\ model' = NoneModel
    /\ model_path' = NonePath
    /\ UNCHANGED <<config, overflow_checks, sampleVars, promptVars, store, other_store, init_result,
                   download_result, pc, argVars,
                   prepVars, loopVars, callVars, result, in_flight, earlier>>

\* self.rgba_to_dynamic_image(image_data, width, height)?: image_data is moved
RgbaToDynamicImage ==
    /\ pc = "rgba"
    /\ LET r == rgba_to_dynamic_image(image_data, width, height, overflow_checks)
       IN /\ image' = r.image
          /\ IF r.kind = "ok" THEN pc' = "features" /\ UNCHANGED result
             ELSE IF r.kind = "err" THEN Abort(Err(r.msg))
             ELSE Abort(Panicked(r.msg))
    /\ image_data' = NoBytes
    /\ UNCHANGED <<stepVars, width, height, prompt, processed, pixel_values, image_features, input_ids,
                   image_token_position, input_embeds, fused_embeds, loopVars, callVars>>

\* how a call ended
EndOf(r, last_id) ==
    IF r.kind # "ok" THEN "error"
    ELSE IF IsEndToken(last_id) THEN "stop token"
    ELSE "step cap"

\* the caller has the result; the request's locals are dropped
Return ==
    /\ pc = "done"
    /\ pc' = "idle"
    /\ width' = 0 /\ height' = 0 /\ image_data' = NoBytes /\ prompt' = NonePrompt
    /\ user_text' = <<>>
    /\ image' = NoImage
    /\ FreshLocals
    /\ result' = NoResult
    /\ in_flight' = in_flight - 1
    /\ earlier' = EndOf(result, next_token_id)
    /\ UNCHANGED <<staticVars, formatted_prompt>>

\* get_image_features: preprocess and the vision encoder's run
GetImageFeatures ==
    /\ pc = "features"
    /\ LET batch_feature == preprocess(image.width, image.height) IN
       /\ processed' = batch_feature.processed
       /\ pixel_values' = batch_feature.pixel_values
       /\ IF batch_feature.kind = "panic"
          THEN /\ Abort(Panicked("index out of bounds"))
               /\ UNCHANGED <<image_features, vision_calls>>
          ELSE /\ vision_calls' = vision_calls + 1
               /\ \/ /\ \E n \in VisionLens, dim \in VisionDims :
                          image_features' = Tensor(ImageRows(n), dim)
                     /\ pc' = "tokenize"
                     /\ UNCHANGED result
                  \/ /\ Abort(Err("vision encoder"))
                     /\ UNCHANGED image_features
    /\ UNCHANGED <<stepVars, argVars, image, input_ids, image_token_position,
                   input_embeds, fused_embeds, loopVars, embed_calls, decoder_calls>>

\* format_chat_template(text), tokenizer.encode and the search for the image
\* token: the text is read here for the last time, and the formatted prompt
\* is moved into encode
Tokenize ==
    /\ pc = "tokenize"
    /\ user_text' = <<>> /\ prompt' = NonePrompt
    /\ \/ /\ \E ids \in PromptEncodings :
               /\ input_ids' = ids
               /\ image_token_position' = image_token_position_of(ids)
          /\ pc' = "embed"
          /\ UNCHANGED result
       \/ /\ Abort(Err("Error encoding"))
          /\ UNCHANGED <<input_ids, image_token_position>>
    /\ UNCHANGED <<staticVars, formatted_prompt, in_flight, earlier, width, height, image_data,
                   image, processed, pixel_values, image_features, input_embeds, fused_embeds,
                   loopVars, callVars>>

\* get_token_embeddings(&input_ids)
GetTokenEmbeddings ==
    /\ pc = "embed"
    /\ embed_calls' = embed_calls + 1
    /\ \/ /\ input_embeds' = Tensor(TextRows(Len(input_ids)), TextDim)
          /\ pc' = "fuse"
          /\ UNCHANGED result
       \/ /\ Abort(Err("embed_tokens"))
          /\ UNCHANGED input_embeds
    /\ UNCHANGED <<stepVars, argVars, image, processed, pixel_values, image_features, input_ids,
                   image_token_position, fused_embeds, loopVars, vision_calls, decoder_calls>>

\* fuse_image_text_embeddings(&input_embeds, &image_features, image_token_position)?
Fuse ==
    /\ pc = "fuse"
    /\ LET r == fuse_image_text_embeddings(input_embeds, image_features, image_token_position)
       IN /\ fused_embeds' = r.value
          /\ IF r.kind = "ok" THEN pc' = "generate" /\ UNCHANGED result
             ELSE IF r.kind = "err" THEN Abort(Err("Image feature dimension doesn't match text dimension"))
             ELSE Abort(Panicked("slice out of bounds"))
    /\ UNCHANGED <<stepVars, argVars, image, processed, pixel_values, image_features, input_ids,
                   image_token_position, input_embeds, loopVars, callVars>>

\* a cache that claims one cached position
empty_kv_tensors_one_cached == [i \in 1..(num_layers * 2) |-> 1]

\* cached_len of the num_layers * 2 tensors of shape (1, num_kv_heads, 0, head_dim)
empty_kv_tensors == [i \in 1..(num_layers * 2) |-> 0]

\* generate_with_decoder before its loop
GenerateInit ==
    /\ pc = "generate"
    /\ LET seq_len == Len(fused_embeds.rows) IN
       /\ current_position_ids' = [i \in 1..seq_len |-> i - 1]
       /\ current_attention_mask' = [i \in 1..seq_len |-> 1]
    /\ past_key_values' = empty_kv_tensors
    /\ generated_tokens' = <<>>
    /\ current_inputs_embeds' = fused_embeds
    /\ step' = 0
    /\ pc' = "loop"
    /\ UNCHANGED <<stepVars, argVars, prepVars, new_past_key_values, model_inputs,
                   present_names, decoder_logits, last_token_logits,
                   next_token_id, callVars, result>>

\* format!("past_key_values.{}.key", i) and its like
TensorName(group, i, role) == group \o "." \o ToString(i) \o "." \o role

\* an entry of model_inputs: the name, and the index in past_key_values of
\* the tensor sent under it (-1: not from the cache)
Input(name, index) == [name |-> name, index |-> index]

\* the key is sent under the value's name and the value under the key's
PastInputs_roles_swapped(i) ==
    <<Input(TensorName("past_key_values", i, "key"), i * 2 + 1),
      Input(TensorName("past_key_values", i, "value"), i * 2)>>

\* the two pushes of layer i
PastInputs(i) ==
    <<Input(TensorName("past_key_values", i, "key"), i * 2),
      Input(TensorName("past_key_values", i, "value"), i * 2 + 1)>>

\* ort::inputs![...] and the pushes of the num_layers layers
ModelInputs ==
    <<Input("inputs_embeds", -1), Input("position_ids", -1), Input("attention_mask", -1)>>
    \o [j \in 1..(num_layers * 2) |-> PastInputs((j - 1) \div 2)[((j - 1) % 2) + 1]]

\* the outputs new_past_key_values is filled from, in the order of the pushes
PresentNames ==
    [j \in 1..(num_layers * 2) |->
        TensorName("present", (j - 1) \div 2, IF (j - 1) % 2 = 0 THEN "key" ELSE "value")]

\* the decoder's own names: the input that holds the past of the tensor it
\* returns under PresentNames[j]
PastNames ==
    [j \in 1..(num_layers * 2) |->
        TensorName("past_key_values", (j - 1) \div 2, IF (j - 1) % 2 = 0 THEN "key" ELSE "value")]

\* the index in past_key_values of the tensor sent under each name
SentIndex ==
    [n \in {ModelInputs[k].name : k \in 1..Len(ModelInputs)} |->
        (CHOOSE e \in {ModelInputs[k] : k \in 1..Len(ModelInputs)} : e.name = n).index]

\* cached_len of the tensor the decoder returns under PresentNames[j]: that
\* of the tensor it was sent under PastNames[j], and the input positions of
\* the run
Present(past, input_len, j) == past[SentIndex[PastNames[j]] + 1] + input_len

\* one iteration, first half: the decoder's run, the present key/values and
\* sample_token on the last position's logits
RunDecoder ==
    /\ pc = "loop"
    /\ LoopContinues(step, config.max_response_length)
    /\ decoder_calls' = decoder_calls + 1
    /\ model_inputs' = ModelInputs
    /\ \/ /\ \E V \in DecoderVocabs :
               LET seq_len == Len(current_inputs_embeds.rows)
                   vocab_size == Min(V, vocab_cap)
               IN /\ decoder_logits' = <<1, seq_len, V>>
                  /\ last_token_logits' = [position |-> seq_len - 1, len |-> vocab_size]
                  /\ \E id \in SampledIds(vocab_size) : next_token_id' = id
          /\ present_names' = PresentNames
          /\ new_past_key_values' =
               [j \in 1..(num_layers * 2) |->
                   Present(past_key_values, Len(current_inputs_embeds.rows), j)]
          /\ pc' = "check"
          /\ UNCHANGED result
       \/ /\ Abort(Err("decoder"))
          /\ UNCHANGED <<next_token_id, new_past_key_values, present_names,
                         decoder_logits, last_token_logits>>
    /\ UNCHANGED <<stepVars, argVars, prepVars, step, generated_tokens,
                   current_inputs_embeds, current_attention_mask, current_position_ids,
                   past_key_values, vision_calls, embed_calls>>

\* the cache of the step before is kept
StorePresent_keeps_past(past, present) == past

\* past_key_values = new_past_key_values
StorePresent(past, present) == present

\* the mask keeps its length
NextAttentionMask_not_extended(current_seq_len) == [i \in 1..current_seq_len |-> 1]

\* Array2::ones((1, current_seq_len + 1))
NextAttentionMask(current_seq_len) == [i \in 1..(current_seq_len + 1) |-> 1]

\* the position after the step's token instead of the token's own
NextPositionIds_post_step(current_seq_len) == <<current_seq_len + 1>>

\* Array2::from_shape_fn((1, 1), |(_, _)| current_seq_len as i64)
NextPositionIds(current_seq_len) == <<current_seq_len>>

\* one iteration, second half: the end-token check, then the push and the
\* inputs of the next step; the iteration's inputs, outputs and logits are
\* dropped
CheckEnd ==
    /\ pc = "check"
    /\ model_inputs' = <<>> /\ present_names' = <<>>
    /\ decoder_logits' = <<>> /\ last_token_logits' = NoSlice
    /\ IF IsEndToken(next_token_id)
       THEN /\ pc' = "stopped"
            /\ UNCHANGED <<generated_tokens, past_key_values, current_inputs_embeds,
                           current_attention_mask, current_position_ids, step,
                           embed_calls, result>>
       ELSE /\ generated_tokens' = Append(generated_tokens, next_token_id)
            /\ past_key_values' = StorePresent(past_key_values, new_past_key_values)
            /\ embed_calls' = embed_calls + 1
            /\ \/ /\ current_inputs_embeds' = Tensor(<<Row("token", next_token_id)>>, TextDim)
                  /\ LET current_seq_len == Len(current_attention_mask) IN
                     /\ current_attention_mask' = NextAttentionMask(current_seq_len)
                     /\ current_position_ids' = NextPositionIds(current_seq_len)
                  /\ step' = step + 1
                  /\ pc' = "loop"
                  /\ UNCHANGED result
               \/ /\ Abort(Err("embed_tokens"))
                  /\ UNCHANGED <<current_inputs_embeds, current_attention_mask,
                                 current_position_ids, step>>
    /\ UNCHANGED <<stepVars, argVars, prepVars, new_past_key_values,
                   next_token_id, vision_calls, decoder_calls>>

\* the for loop runs out: step reached max_response_length
LoopExit ==
    /\ pc = "loop"
    /\ ~LoopContinues(step, config.max_response_length)
    /\ pc' = "stopped"
    /\ UNCHANGED <<stepVars, argVars, prepVars, loopVars, callVars, result>>

\* after the loop: the placeholder or the decoded text, trimmed again by
\* generate_text_sync and returned by analyze_frame_sync
Finish ==
    /\ pc = "stopped"
    /\ \/ Abort(Ok(Trim(generated_text_of(generated_tokens))))
       \/ /\ generated_tokens # <<>>
          /\ Abort(Err("Decode error"))
    /\ UNCHANGED <<stepVars, argVars, prepVars, loopVars, callVars>>

Next ==
    \/ Initialize
    \/ Cleanup
    \/ AnalyzeImage
    \/ RgbaToDynamicImage
    \/ Return
    \/ GetImageFeatures
    \/ Tokenize
    \/ GetTokenEmbeddings
    \/ Fuse
    \/ GenerateInit
    \/ RunDecoder
    \/ CheckEnd
    \/ LoopExit
    \/ Finish

Spec == Init /\ [][Next]_vars

\* ------------------------------------------------------------ client alone
\* a client whose callers point it at either of two directories: one that
\* is absent or complete, and one that exists, with or without the decoder;
\* the configuration allows one generation step
ClientInit ==
    /\ config = [max_response_length |-> 1, default_prompt |-> DefaultPrompt]
    /\ overflow_checks = FALSE
    /\ model = NoneModel /\ model_path = NonePath
    /\ store \in {NoDir, Dir(Artifacts)}
    /\ other_store \in {Dir(Artifacts), Dir(Artifacts \ {"decoder_model_merged.onnx"})}
    /\ init_result = NoInit /\ download_result = NoDownload
    /\ in_flight = 0 /\ earlier = "none"
    /\ user_text = <<>> /\ formatted_prompt = <<>>
    /\ pc = "idle"
    /\ width = 0 /\ height = 0 /\ image_data = NoBytes /\ prompt = NonePrompt
    /\ image = NoImage
    /\ processed = NoCanvas /\ pixel_values = <<>>
    /\ image_features = NoTensor
    /\ input_ids = <<>>
    /\ image_token_position = 0
    /\ input_embeds = NoTensor
    /\ fused_embeds = NoTensor
    /\ step = 0
    /\ generated_tokens = <<>>
    /\ current_inputs_embeds = NoTensor
    /\ current_attention_mask = <<>>
    /\ current_position_ids = <<>>
    /\ past_key_values = <<>>
    /\ new_past_key_values = <<>>
    /\ model_inputs = <<>> /\ present_names = <<>>
    /\ decoder_logits = <<>> /\ last_token_logits = NoSlice
    /\ next_token_id = -1
    /\ vision_calls = 0 /\ embed_calls = 0 /\ decoder_calls = 0
    /\ result = NoResult
    /\ logits = <<>> /\ temperature = 0 /\ random_val = 0 /\ sampled = -1

ClientNext ==
    \/ Initialize
    \/ InitializeOther
    \/ Cleanup
    \/ AnalyzeImage
    \/ RgbaToDynamicImage
    \/ Return
    \/ GetImageFeatures
    \/ Tokenize
    \/ GetTokenEmbeddings
    \/ Fuse
    \/ GenerateInit
    \/ RunDecoder
    \/ CheckEnd
    \/ LoopExit
    \/ Finish

ClientSpec == ClientInit /\ [][ClientNext]_vars

\* ------------------------------------------------------------ fusion alone
\* fuse_image_text_embeddings as a function of its arguments: every text
\* length, image length and placeholder index 0 <= p <= Lt within the bounds.
MaxSmallLi == 2

FuseImageLens == (0..MaxSmallLi) \cup ((max_image_tokens - 1)..(max_image_tokens + ExtraImage))

FuseInit ==
    /\ config = [max_response_length |-> 0, default_prompt |-> DefaultPrompt]
    /\ overflow_checks = FALSE
    /\ NoClient
    /\ user_text = <<>> /\ formatted_prompt = <<>>
    /\ pc = "fuse_call"
    /\ width = 0 /\ height = 0 /\ image_data = NoBytes /\ prompt = NonePrompt
    /\ image = NoImage
    /\ processed = NoCanvas /\ pixel_values = <<>>
    /\ \E lt \in 0..MaxLt : \E p \in 0..lt :
         /\ input_ids = [i \in 1..lt |-> 1]
         /\ input_embeds = Tensor(TextRows(lt), TextDim)
         /\ image_token_position = p
    /\ \E li \in FuseImageLens, dim \in VisionDims :
         image_features = Tensor(ImageRows(li), dim)
    /\ fused_embeds = NoTensor
    /\ step = 0
    /\ generated_tokens = <<>>
    /\ current_inputs_embeds = NoTensor
    /\ current_attention_mask = <<>>
    /\ current_position_ids = <<>>
    /\ past_key_values = <<>>
    /\ new_past_key_values = <<>>
    /\ model_inputs = <<>> /\ present_names = <<>>
    /\ decoder_logits = <<>> /\ last_token_logits = NoSlice
    /\ next_token_id = -1
    /\ vision_calls = 0 /\ embed_calls = 0 /\ decoder_calls = 0
    /\ result = NoResult
    /\ logits = <<>> /\ temperature = 0 /\ random_val = 0 /\ sampled = -1

FuseCall ==
    /\ pc = "fuse_call"
    /\ LET r == fuse_image_text_embeddings(input_embeds, image_features, image_token_position)
       IN /\ fused_embeds' = r.value
          /\ result' = IF r.kind = "ok" THEN Ok(NoText)
                       ELSE IF r.kind = "err"
                            THEN Err("Image feature dimension doesn't match text dimension")
                            ELSE Panicked("slice out of bounds")
    /\ pc' = "fuse_done"
    /\ UNCHANGED <<stepVars, argVars, image, processed, pixel_values, image_features, input_ids,
                   image_token_position, input_embeds, loopVars, callVars>>

FuseNext == FuseCall

FuseSpec == FuseInit /\ [][FuseNext]_vars

\* ------------------------------------------------------------ sample_token
\* f32 values: a finite number, +inf, -inf or NaN.
Fin(v) == [k |-> "fin", v |-> v]

PInf == [k |-> "pinf", v |-> 0]

NInf == [k |-> "ninf", v |-> 0]

NaN == [k |-> "nan", v |-> 0]

\* a > b on f32 values other than NaN
FGreater(a, b) ==
    \/ a.k = "pinf" /\ b.k # "pinf"
    \/ a.k = "fin" /\ b.k = "ninf"
    \/ a.k = "fin" /\ b.k = "fin" /\ a.v > b.v

\* a - b
FSub(a, b) ==
    IF a.k = "nan" \/ b.k = "nan" THEN NaN
    ELSE IF a.k = "fin" /\ b.k = "fin" THEN Fin(a.v - b.v)
    ELSE IF a.k = b.k THEN NaN
    ELSE IF a.k = "pinf" \/ b.k = "ninf" THEN PInf
    ELSE NInf

\* e^(-d / t) in thousandths, rounded, for d >= 0 and the temperature t given
\* in tenths (7 is 0.7, 10 is 1.0)
ExpMilli(d, t10) ==
    IF d = 0 THEN 1000
    ELSE IF t10 = 7
         THEN CASE d = 1 -> 240 [] d = 2 -> 57 [] d = 3 -> 14 [] d = 4 -> 3
                [] d = 5 -> 1 [] OTHER -> 0
         ELSE CASE d = 1 -> 368 [] d = 2 -> 135 [] d = 3 -> 50 [] d = 4 -> 18
                [] d = 5 -> 7 [] d = 6 -> 2 [] d = 7 -> 1 [] OTHER -> 0

Weight(milli) == [nan |-> FALSE, milli |-> milli]

NaNWeight == [nan |-> TRUE, milli |-> 0]

\* ((logit - max_logit) / temperature).exp() for a difference that is not
\* positive: 0/0 is NaN, a negative number over 0 is -inf, e^-inf is 0
ScaledExp(diff, t10) ==
    IF diff.k = "nan" THEN NaNWeight
    ELSE IF diff.k = "ninf" THEN Weight(0)
    ELSE IF t10 = 0 THEN (IF diff.v = 0 THEN NaNWeight ELSE Weight(0))
    ELSE Weight(ExpMilli(0 - diff.v, t10))

\* logits.iter().enumerate(): pairs of the 0-based index and the logit
Enumerate(ls) == [i \in 1..Len(ls) |-> [idx |-> i - 1, logit |-> ls[i]]]

\* a stands before b after the stable descending sort: its logit is greater,
\* or neither is greater and it came first
Before(a, b) ==
    \/ FGreater(a.logit, b.logit)
    \/ ~FGreater(b.logit, a.logit) /\ a.idx < b.idx

\* the rank of each element after the sort: one more than the number of
\* elements that stand before it
Ranks(xs) ==
    [i \in 1..Len(xs) |-> 1 + Cardinality({j \in 1..Len(xs) : Before(xs[j], xs[i])})]

Permute(xs, rank) == [r \in 1..Len(xs) |-> xs[CHOOSE i \in 1..Len(xs) : rank[i] = r]]

\* indexed_logits.sort_by(|a, b| b.1.partial_cmp(&a.1)...)
SortDescending(xs) == Permute(xs, Ranks(xs))

TOP_K == 50

\* indexed_logits.truncate(TOP_K)
Truncate(xs, k) == SubSeq(xs, 1, Min(Len(xs), k))

\* indexed_logits after sort_by and truncate
TopCandidates(ls) == Truncate(SortDescending(Enumerate(ls)), TOP_K)

\* the candidates' exp values, before the division by sum_exp
Weights(top, max_logit, t10) ==
    [i \in 1..Len(top) |-> ScaledExp(FSub(top[i].logit, max_logit), t10)]

\* sums[r]: the sum of the first r exp values
RECURSIVE PrefixSums(_, _)
PrefixSums(ws, acc) ==
    IF Len(acc) = Len(ws) THEN acc
    ELSE PrefixSums(ws, Append(acc, (IF acc = <<>> THEN 0 ELSE acc[Len(acc)])
                                    + ws[Len(acc) + 1].milli))

\* a NaN among the terms makes sum_exp, and with it every probability, NaN
AnyNaN(ws) == \E i \in 1..Len(ws) : ws[i].nan

\* the ranks whose cumulative probability reaches the draw: random_val <=
\* cumulative_prob, in exact arithmetic draw/1000 <= sums[r]/sum_exp
Hits(sums, draw) ==
    {r \in 1..Len(sums) : draw * sums[Len(sums)] <= sums[r] * 1000}

First(hits) == IF hits = {} THEN 0 ELSE CHOOSE r \in hits : \A q \in hits : r <= q

\* the walk: the first rank that reaches the draw, 0 when none does.  A NaN
\* compares false with every draw.
WalkRank(ws, draw) ==
    IF AnyNaN(ws) THEN 0 ELSE First(Hits(PrefixSums(ws, <<>>), draw))

\* the value after the loop: Ok(0)
Fallback(top) == 0

Pick(top, rank) == IF rank > 0 THEN top[rank].idx ELSE Fallback(top)

WalkTop(top, t10, draw) == Pick(top, WalkRank(Weights(top, top[1].logit, t10), draw))

sample_token(ls, t10, draw) == WalkTop(TopCandidates(ls), t10, draw)

\* logits vectors: all short ones over a few values, and ones longer than TOP_K
MaxLogit == 1
MaxV == 3
ExtraVocab == 1

LogitValues == {Fin(v) : v \in 0..MaxLogit} \cup {PInf, NInf}

LongLogits ==
    UNION {{[i \in 1..n |-> Fin(i - 1)], [i \in 1..n |-> Fin(n - i)], [i \in 1..n |-> Fin(0)]} :
              n \in (TOP_K + 1)..(TOP_K + ExtraVocab)}

LogitsInputs == UNION {SeqsOfLen(LogitValues, n) : n \in 1..MaxV} \cup LongLogits

\* temperatures in tenths; the loop passes 0.7
Temperatures == {0, 7, 10}

\* the draw is (seed * 1103515245 + 12345) % 1000000 / 1000000 with seed the
\* clock's nanoseconds: a multiple of 1/1000000 below 1, here in thousandths
Draws == {0, 250, 500, 999}

SampleInit ==
    /\ config = [max_response_length |-> 0, default_prompt |-> DefaultPrompt]
    /\ overflow_checks = FALSE
    /\ NoClient
    /\ user_text = <<>> /\ formatted_prompt = <<>>
    /\ pc = "sample_call"
    /\ width = 0 /\ height = 0 /\ image_data = NoBytes /\ prompt = NonePrompt
    /\ image = NoImage
    /\ processed = NoCanvas /\ pixel_values = <<>>
    /\ image_features = NoTensor
    /\ input_ids = <<>>
    /\ image_token_position = 0
    /\ input_embeds = NoTensor
    /\ fused_embeds = NoTensor
    /\ step = 0
    /\ generated_tokens = <<>>
    /\ current_inputs_embeds = NoTensor
    /\ current_attention_mask = <<>>
    /\ current_position_ids = <<>>
    /\ past_key_values = <<>>
    /\ new_past_key_values = <<>>
    /\ model_inputs = <<>> /\ present_names = <<>>
    /\ decoder_logits = <<>> /\ last_token_logits = NoSlice
    /\ next_token_id = -1
    /\ vision_calls = 0 /\ embed_calls = 0 /\ decoder_calls = 0
    /\ result = NoResult
    /\ logits \in LogitsInputs
    /\ temperature \in Temperatures
    /\ random_val = 0
    /\ sampled = -1

\* one execution of sample_token(logits, temperature); the caller may run it
\* again on the same arguments, and each execution reads the clock anew
SampleToken ==
    /\ pc \in {"sample_call", "sample_done"}
    /\ \E draw \in Draws :
         /\ random_val' = draw
         /\ sampled' = sample_token(logits, temperature, draw)
    /\ pc' = "sample_done"
    /\ UNCHANGED <<config, overflow_checks, clientVars, promptVars, in_flight, earlier,
                   logits, temperature, argVars, prepVars,
                   loopVars, callVars, result>>

SampleNext == SampleToken

SampleSpec == SampleInit /\ [][SampleNext]_vars

\* ------------------------------------------------------------ preprocess alone
\* preprocess as a function of the image's dimensions: small sides, a side
\* whose f32 quotient rounds down, and sides around the target's 1024
MaxSide == 3
ExtraSide == 1

ImageSides == (1..MaxSide) \cup {41} \cup ((crop_size[1] - 1)..(crop_size[1] + ExtraSide))

PreprocessInit ==
    /\ config = [max_response_length |-> 0, default_prompt |-> DefaultPrompt]
    /\ overflow_checks = FALSE
    /\ NoClient
    /\ user_text = <<>> /\ formatted_prompt = <<>>
    /\ pc = "preprocess_call"
    /\ width \in ImageSides /\ height \in ImageSides
    /\ image_data = NoBytes /\ prompt = NonePrompt
    /\ image = [width |-> width, height |-> height, data |-> Bytes("caller", Size(width * height, 0))]
    /\ processed = NoCanvas /\ pixel_values = <<>>
    /\ image_features = NoTensor
    /\ input_ids = <<>>
    /\ image_token_position = 0
    /\ input_embeds = NoTensor
    /\ fused_embeds = NoTensor
    /\ step = 0
    /\ generated_tokens = <<>>
    /\ current_inputs_embeds = NoTensor
    /\ current_attention_mask = <<>>
    /\ current_position_ids = <<>>
    /\ past_key_values = <<>>
    /\ new_past_key_values = <<>>
    /\ model_inputs = <<>> /\ present_names = <<>>
    /\ decoder_logits = <<>> /\ last_token_logits = NoSlice
    /\ next_token_id = -1
    /\ vision_calls = 0 /\ embed_calls = 0 /\ decoder_calls = 0
    /\ result = NoResult
    /\ logits = <<>> /\ temperature = 0 /\ random_val = 0 /\ sampled = -1

\* preprocess, first half: self.resize_with_padding(&rgb_image, 1024, 1024)?
ResizeWithPadding ==
    /\ pc = "preprocess_call"
    /\ processed' = resize_with_padding(image.width, image.height, crop_size[1], crop_size[2])
    /\ IF processed'.kind = "ok"
       THEN pc' = "to_tensor" /\ UNCHANGED result
       ELSE pc' = "preprocess_done" /\ result' = Panicked("index out of bounds")
    /\ UNCHANGED <<stepVars, argVars, image, pixel_values, image_features, input_ids,
                   image_token_position, input_embeds, fused_embeds, loopVars, callVars>>

\* preprocess, second half: self.to_tensor(&processed)? and the Ok
ToTensor ==
    /\ pc = "to_tensor"
    /\ pixel_values' = to_tensor(processed)
    /\ result' = Ok(NoText)
    /\ pc' = "preprocess_done"
    /\ UNCHANGED <<stepVars, argVars, image, processed, image_features, input_ids,
                   image_token_position, input_embeds, fused_embeds, loopVars, callVars>>

PreprocessNext == ResizeWithPadding \/ ToTensor

PreprocessSpec == PreprocessInit /\ [][PreprocessNext]_vars

\* ------------------------------------------------------------ prompt alone
\* format_chat_template and the encoding of its result, for every text of up
\* to MaxText pieces
MaxText == 3

TextPieces == {"<", "image", ">", "x"}

UserTexts == UNION {SeqsOfLen(TextPieces, n) : n \in 0..MaxText}

TemplateInit ==
    /\ config = [max_response_length |-> 0, default_prompt |-> DefaultPrompt]
    /\ overflow_checks = FALSE
    /\ NoClient
    /\ user_text \in UserTexts
    /\ formatted_prompt = <<>>
    /\ pc = "format_call"
    /\ width = 0 /\ height = 0 /\ image_data = NoBytes /\ prompt = NonePrompt
    /\ image = NoImage
    /\ processed = NoCanvas /\ pixel_values = <<>>
    /\ image_features = NoTensor
    /\ input_ids = <<>>
    /\ image_token_position = 0
    /\ input_embeds = NoTensor
    /\ fused_embeds = NoTensor
    /\ step = 0
    /\ generated_tokens = <<>>
    /\ current_inputs_embeds = NoTensor
    /\ current_attention_mask = <<>>
    /\ current_position_ids = <<>>
    /\ past_key_values = <<>>
    /\ new_past_key_values = <<>>
    /\ model_inputs = <<>> /\ present_names = <<>>
    /\ decoder_logits = <<>> /\ last_token_logits = NoSlice
    /\ next_token_id = -1
    /\ vision_calls = 0 /\ embed_calls = 0 /\ decoder_calls = 0
    /\ result = NoResult
    /\ logits = <<>> /\ temperature = 0 /\ random_val = 0 /\ sampled = -1

\* let formatted_prompt = self.format_chat_template(text)
FormatChatTemplate ==
    /\ pc = "format_call"
    /\ formatted_prompt' = format_chat_template(user_text)
    /\ pc' = "encode_call"
    /\ UNCHANGED <<config, overflow_checks, sampleVars, clientVars, user_text, in_flight, earlier,
                   argVars, prepVars, loopVars, callVars, result>>

\* tokenizer.encode, input_ids and the search for the image token
EncodePrompt ==
    /\ pc = "encode_call"
    /\ input_ids' = Encode(formatted_prompt, 1)
    /\ image_token_position' = image_token_position_of(input_ids')
    /\ pc' = "encoded"
    /\ UNCHANGED <<stepVars, argVars, image, processed, pixel_values, image_features,
                   input_embeds, fused_embeds, loopVars, callVars, result>>

TemplateNext == FormatChatTemplate \/ EncodePrompt

TemplateSpec == TemplateInit /\ [][TemplateNext]_vars

\* ------------------------------------------------------------ download alone
\* calls of download_fastvlm_models on one directory, which is absent at
\* first or holds any of the four files
DownloadDirs == {NoDir} \cup {Dir(files) : files \in SUBSET Artifacts}

DownloadInit ==
    /\ config = [max_response_length |-> 0, default_prompt |-> DefaultPrompt]
    /\ overflow_checks = FALSE
    /\ model = NoneModel /\ model_path = NonePath
    /\ store \in DownloadDirs
    /\ other_store = NoDir
    /\ init_result = NoInit /\ download_result = NoDownload
    /\ in_flight = 0 /\ earlier = "none"
    /\ user_text = <<>>
    /\ formatted_prompt = <<>>
    /\ pc = "idle"
    /\ width = 0 /\ height = 0 /\ image_data = NoBytes /\ prompt = NonePrompt
    /\ image = NoImage
    /\ processed = NoCanvas /\ pixel_values = <<>>
    /\ image_features = NoTensor
    /\ input_ids = <<>>
    /\ image_token_position = 0
    /\ input_embeds = NoTensor
    /\ fused_embeds = NoTensor
    /\ step = 0
    /\ generated_tokens = <<>>
    /\ current_inputs_embeds = NoTensor
    /\ current_attention_mask = <<>>
    /\ current_position_ids = <<>>
    /\ past_key_values = <<>>
    /\ new_past_key_values = <<>>
    /\ model_inputs = <<>> /\ present_names = <<>>
    /\ decoder_logits = <<>> /\ last_token_logits = NoSlice
    /\ next_token_id = -1
    /\ vision_calls = 0 /\ embed_calls = 0 /\ decoder_calls = 0
    /\ result = NoResult
    /\ logits = <<>> /\ temperature = 0 /\ random_val = 0 /\ sampled = -1

\* one call of download_fastvlm_models(model_dir)
DownloadFastvlmModels ==
    /\ \E d \in download_fastvlm_models(store) :
         /\ store' = d.store
         /\ download_result' = [kind |-> IF d.ok THEN "ok" ELSE "err",
                                 processed |-> d.processed, skipped |-> d.skipped]
    /\ UNCHANGED <<config, overflow_checks, sampleVars, promptVars, model, model_path, other_store,
                   init_result, pc, argVars, prepVars, loopVars, callVars, result, in_flight,
                   earlier>>

DownloadNext == DownloadFastvlmModels

DownloadSpec == DownloadInit /\ [][DownloadNext]_vars

\* ------------------------------------------------------------ claims
\* the steps a started request takes by itself: the call is synchronous, so
\* each of them happens once it can
RequestStep ==
    \/ RgbaToDynamicImage
    \/ GetImageFeatures
    \/ Tokenize
    \/ GetTokenEmbeddings
    \/ Fuse
    \/ GenerateInit
    \/ RunDecoder
    \/ CheckEnd
    \/ LoopExit
    \/ Finish

StopIds == {EOS_TOKEN_ID, IM_END_TOKEN_ID}

\* what is left of the loop: two half-steps for each iteration not yet begun
LoopMeasure ==
    2 * (config.max_response_length - step) - (IF pc = "check" THEN 1 ELSE 0)

\* a step of a request in the loop leaves the loop or lowers the measure
LoopProgress ==
    pc \in {"loop", "check"}
        => \/ pc' \in {"stopped", "done"}
           \/ pc' \in {"loop", "check"} /\ 0 <= LoopMeasure' /\ LoopMeasure' < LoopMeasure

\* C1: the decoder runs at most max_response_length times in a request and
\* generated_tokens never holds more than max_response_length ids; a request
\* in the loop can always take a step, and each step either leaves the loop
\* (STOPPED, or the abort of a failing network) or uses up one of the
\* 2 * max_response_length half-steps, so the loop ends.
C1_LoopBounded ==
    /\ [](/\ decoder_calls <= config.max_response_length
          /\ Len(generated_tokens) <= config.max_response_length)
    /\ [](pc \in {"loop", "check"} => ENABLED RequestStep)
    /\ [][LoopProgress]_vars

\* the cap is reached with no end token sampled
C1_Witness ==
    /\ pc = "stopped"
    /\ config.max_response_length = MaxResponseLength
    /\ decoder_calls = config.max_response_length
    /\ Len(generated_tokens) = config.max_response_length

\* the step after an end token was sampled goes to STOPPED and appends nothing
StopsAtOnce ==
    (next_token_id \in StopIds /\ pc = "check")
        => (pc' = "stopped" /\ generated_tokens' = generated_tokens)

\* while the sampled end token is the request's last id, no network runs
NoRunAfterStop ==
    (next_token_id \in StopIds /\ next_token_id' \in StopIds)
        => (/\ decoder_calls' = decoder_calls
            /\ embed_calls' = embed_calls
            /\ generated_tokens' = generated_tokens)

\* C2: an end token (151645) is never appended to generated_tokens; once it
\* is sampled the loop stops in that step, and the request runs neither the
\* decoder nor the embedding lookup again.
C2_StopNotAppended ==
    /\ [](\A i \in 1..Len(generated_tokens) : generated_tokens[i] \notin StopIds)
    /\ [](next_token_id \in StopIds => pc \in {"check", "stopped", "done"})
    /\ [][StopsAtOnce]_vars
    /\ [][NoRunAfterStop]_vars

\* an end token sampled after a token was generated
C2_Witness ==
    /\ pc = "stopped"
    /\ next_token_id = EOS_TOKEN_ID
    /\ Len(generated_tokens) = 1
    /\ decoder_calls = 2

\* from STOPPED with no token the next step returns Ok with the placeholder
EmptyReturnsPlaceholder ==
    (pc = "stopped" /\ generated_tokens = <<>>)
        => (/\ pc' = "done"
            /\ result'.kind = "ok"
            /\ result'.text.kind = "literal"
            /\ result'.text.str = "No response generated.")

\* C3: a loop that stops with generated_tokens empty makes the request
\* return Ok with the text "No response generated."; and an Ok result is that
\* placeholder only when generated_tokens is empty.
C3_EmptyGivesPlaceholder ==
    /\ [][EmptyReturnsPlaceholder]_vars
    /\ [](pc = "done" /\ result.kind = "ok"
            => (result.text.kind = "literal" <=> generated_tokens = <<>>))

\* max_response_length = 0: the placeholder, with no decoder run
C3_Witness ==
    /\ pc = "done"
    /\ config.max_response_length = 0
    /\ result.kind = "ok"
    /\ result.text.str = "No response generated."
    /\ decoder_calls = 0

\* C4: with matching hidden widths, the fused sequence has exactly
\* Lt + min(Li, 256) positions.
C4_FusedLength ==
    pc = "fuse_done" /\ image_features.dim = input_embeds.dim
        => /\ result.kind = "ok"
           /\ Len(fused_embeds.rows) =
                Len(input_embeds.rows)
                + (IF Len(image_features.rows) <= 256 THEN Len(image_features.rows) ELSE 256)

\* more image positions than the cap
C4_Witness ==
    /\ pc = "fuse_done"
    /\ result.kind = "ok"
    /\ Len(image_features.rows) > 256
    /\ Len(input_embeds.rows) = MaxLt
    /\ Len(fused_embeds.rows) = MaxLt + 256

\* C5: with n = min(Li, 256), the fused sequence is text[0..p), then
\* image[0..n), then text[p..Lt); every text embedding is there exactly once.
C5_FusedLayout ==
    pc = "fuse_done" /\ result.kind = "ok"
        => LET text == input_embeds.rows
               img == image_features.rows
               out == fused_embeds.rows
               p == image_token_position
               n == IF Len(img) <= 256 THEN Len(img) ELSE 256
           IN /\ \A i \in 0..(p - 1) : out[i + 1] = text[i + 1]
              /\ \A j \in 0..(n - 1) : out[p + j + 1] = img[j + 1]
              /\ \A j \in 0..(Len(text) - p - 1) : out[p + n + j + 1] = text[p + j + 1]
              /\ \A i \in 1..Len(text) :
                    Cardinality({k \in 1..Len(out) : out[k] = text[i]}) = 1

\* the block lands inside the text and is cut at the cap
C5_Witness ==
    /\ pc = "fuse_done"
    /\ result.kind = "ok"
    /\ image_token_position = 1
    /\ Len(input_embeds.rows) = 3
    /\ Len(image_features.rows) = 257
    /\ fused_embeds.rows[2] = Row("image", 0)
    /\ fused_embeds.rows[258] = Row("text", 1)

\* C6: without an image token (151646) among the Lt prompt ids the block
\* goes to index floor(Lt / 2), with one it goes to that token's index; the
\* index is within 0..Lt and it is where fusion puts the first image row.
C6_ImagePosition ==
    input_ids # <<>>
        => LET Lt == Len(input_ids)
               p == image_token_position
               present == \E i \in 1..Lt : input_ids[i] = 151646
           IN /\ ~present => p = Lt \div 2
              /\ present => /\ input_ids[p + 1] = 151646
                            /\ \A i \in 1..p : input_ids[i] # 151646
              /\ 0 <= p /\ p <= Lt
              /\ fused_embeds # NoTensor => fused_embeds.rows[p + 1] = Row("image", 0)

\* three ids, none the image token: the block goes to index 1
C6_Witness ==
    /\ pc = "generate"
    /\ Len(input_ids) = 3
    /\ \A i \in 1..3 : input_ids[i] # IMAGE_TOKEN_ID
    /\ image_token_position = 1
    /\ fused_embeds.rows[2] = Row("image", 0)

\* C7: when the image features' hidden width differs from the text
\* embeddings', fusion fails, the request ends with that error and the
\* decoder is never run.
C7_DimMismatchAborts ==
    input_embeds # NoTensor /\ image_features.dim # input_embeds.dim /\ pc # "fuse"
        => /\ pc = "done"
           /\ result = Err("Image feature dimension doesn't match text dimension")
           /\ fused_embeds = NoTensor
           /\ decoder_calls = 0

C7_Witness ==
    /\ pc = "done"
    /\ input_embeds.dim = 2
    /\ image_features.dim = 3
    /\ result.kind = "err"
    /\ embed_calls = 1

\* what rgba_to_dynamic_image is to do with a buffer of the wrong length
BufferLengthStep ==
    pc = "rgba"
        => LET exact == Size(width * height, 0) IN
           /\ SizeLess(exact, image_data.len)
                => (/\ pc' = "features"
                    /\ image' = [width |-> width, height |-> height,
                                 data |-> Bytes(image_data.src, exact)])
           /\ SizeLess(image_data.len, exact)
                => (/\ pc' = "done"
                    /\ result'.kind = "err"
                    /\ vision_calls' = 0 /\ embed_calls' = 0 /\ decoder_calls' = 0)

\* C8: a buffer longer than width*height*4 bytes is cut to its first
\* width*height*4 bytes and the image is built from them; a shorter one makes
\* the request fail with an error before any network has run.
C8_BufferLength == [][BufferLengthStep]_vars

\* C9: the id sample_token returns is one of the 50 indices with the highest
\* logits (fewer than 50 logits are greater than its own), on every path.
C9_SampledInTopK ==
    pc = "sample_done"
        => Cardinality({j \in 1..Len(logits) : FGreater(logits[j], logits[sampled + 1])}) < 50

\* C10: when no cumulative probability reaches the draw, sample_token
\* returns the index of the largest logit.
C10_FallbackIsArgmax ==
    pc = "sample_done"
    /\ WalkRank(Weights(TopCandidates(logits), TopCandidates(logits)[1].logit, temperature),
                random_val) = 0
        => \A j \in 1..Len(logits) : ~FGreater(logits[j], logits[sampled + 1])

\* the exp value of the candidate at rank r and the sum of those up to r
CandidateWeight(r) ==
    ScaledExp(FSub(TopCandidates(logits)[r].logit, TopCandidates(logits)[1].logit), temperature)

RECURSIVE Cumulative(_)
Cumulative(r) == IF r = 0 THEN 0 ELSE Cumulative(r - 1) + CandidateWeight(r).milli

\* the candidate at rank r reaches the draw: random_val <= cumulative_prob
Reaches(r) ==
    /\ \A q \in 1..Len(TopCandidates(logits)) : ~CandidateWeight(q).nan
    /\ random_val * Cumulative(Len(TopCandidates(logits))) <= Cumulative(r) * 1000

UniqueMaximum(i) == \A j \in 1..Len(logits) : j # i => FGreater(logits[i], logits[j])

\* C11: sample_token returns the first candidate, in descending logit order,
\* whose cumulative probability reaches the draw; with a unique largest logit
\* and a draw of 0.0 that is the index of the largest logit.
C11_WalkReturnsFirstHit ==
    pc = "sample_done"
        => /\ \A r \in 1..Len(TopCandidates(logits)) :
                 Reaches(r) /\ (\A q \in 1..(r - 1) : ~Reaches(q))
                     => sampled = TopCandidates(logits)[r].idx
           /\ \A i \in 1..Len(logits) :
                 UniqueMaximum(i) /\ random_val = 0 => sampled = i - 1

\* C12: two executions of sample_token on the same logits and the same
\* temperature (the function has no other argument, so the same injected
\* draws) return the same id.
C12_SameInputsSameToken ==
    [][pc = "sample_done" /\ pc' = "sample_done" /\ logits' = logits
       /\ temperature' = temperature => sampled' = sampled]_vars

\* C13: for every image with positive width and height preprocess succeeds
\* and its tensor has the shape [1, 3, 1024, 1024]: no step of it fails, and
\* the canvas the tensor is made from is 1024 x 1024 whatever the content's
\* size within it.
C13_PreprocessShape ==
    /\ pc \in {"to_tensor", "preprocess_done"} => processed.kind = "ok"
    /\ pc = "preprocess_done"
         => /\ result.kind = "ok"
            /\ pixel_values = <<1, 3, 1024, 1024>>

\* an image far taller than wide
C13_Witness ==
    /\ pc = "preprocess_done"
    /\ width = 1 /\ height = 1025
    /\ processed.new_width < processed.new_height
    /\ pixel_values = <<1, 3, 1024, 1024>>

\* C14: the resized content is at least 1 x 1 and at most the target, it has
\* the size the uniform scale min(1024/w, 1024/h) gives (to the pixel the
\* truncation may lose), and the paddings on opposite sides differ by at
\* most one pixel.
C14_LetterboxNeverCrops ==
    pc \in {"to_tensor", "preprocess_done"}
        => LET m == IF width >= height THEN width ELSE height
               nw == processed.new_width
               nh == processed.new_height
               left == processed.x_offset
               right == 1024 - nw - left
               top == processed.y_offset
               bottom == 1024 - nh - top
           IN /\ 1 <= nw /\ nw <= 1024
              /\ 1 <= nh /\ nh <= 1024
              /\ nw * m <= width * 1024 /\ width * 1024 < (nw + 2) * m
              /\ nh * m <= height * 1024 /\ height * 1024 < (nh + 2) * m
              /\ left - right \in {-1, 0, 1}
              /\ top - bottom \in {-1, 0, 1}

\* analyze_image on a client without a model: an error, and no network run
NoModelNoInference ==
    (~is_initialized /\ in_flight = 0 /\ in_flight' = 1)
        => (/\ pc' = "done"
            /\ result'.kind = "err"
            /\ vision_calls' = 0 /\ embed_calls' = 0 /\ decoder_calls' = 0)

\* what cleanup leaves, and that a cleanup of an unloaded client is no change
CleanupUnloads ==
    Cleanup => (/\ ~is_initialized' /\ ~get_model_path'.some
                /\ (~is_initialized /\ ~get_model_path.some => UNCHANGED vars))

\* C15: a client on which initialize has not succeeded, or which was cleaned
\* up, has no model: analyze_image then returns an error without running any
\* network, and no request is ever inside the pipeline; cleanup leaves
\* is_initialized() false and get_model_path() None, and a cleanup of a
\* client already in that state changes nothing.
C15_UninitializedClient ==
    /\ [](init_result = NoInit => ~is_initialized)
    /\ [](~is_initialized => /\ ~get_model_path.some
                             /\ pc \in {"idle", "done"}
                             /\ vision_calls = 0 /\ embed_calls = 0 /\ decoder_calls = 0)
    /\ [][NoModelNoInference]_vars
    /\ [][CleanupUnloads]_vars

\* analyze_image after initialize succeeded and cleanup unloaded the model
C15_Witness ==
    /\ pc = "done"
    /\ init_result.kind = "ok"
    /\ ~is_initialized /\ ~get_model_path.some
    /\ result.kind = "err"
    /\ earlier = "step cap"

\* a call begins only when no call is in flight
StartsAlone == in_flight' > in_flight => in_flight = 0

C17_FreshGenerationState ==
    pc = "loop" /\ decoder_calls = 0
        => /\ Len(past_key_values) = 48
           /\ \A i \in 1..48 : past_key_values[i] = 0
           /\ generated_tokens = <<>>
           /\ step = 0
           /\ current_inputs_embeds = fused_embeds
           /\ Len(current_attention_mask) = Len(fused_embeds.rows)
           /\ \A i \in 1..Len(current_attention_mask) : current_attention_mask[i] = 1
           /\ current_position_ids = [i \in 1..Len(fused_embeds.rows) |-> i - 1]

\* the first decoder run of a call that follows one ended by an error
C17_Witness ==
    /\ pc = "check"
    /\ decoder_calls = 1
    /\ earlier = "error"
    /\ generated_tokens = <<>>
    /\ Len(current_attention_mask) = Len(fused_embeds.rows)

\* a failed initialize on a directory that lacks a file: no model is made
FailedBuildLeavesNoModel ==
    (Initialize /\ store'.exists /\ store'.files # Artifacts)
        => (init_result'.kind = "err" /\ model' = model /\ model_path' = model_path)

\* C18: with one of the four files absent from the model directory the
\* build fails with an error at the first absent file, after one load
\* attempt for each file before it and none repeated; no model exists
\* afterwards, and no request enters the pipeline, let alone its loop.
C18_MissingArtifactFails ==
    /\ [](is_initialized => model.loaded = Artifacts)
    /\ [](store.exists /\ store.files # Artifacts
            => /\ ~is_initialized
               /\ pc \in {"idle", "done"}
               /\ decoder_calls = 0)
    /\ [](init_result.kind = "err" /\ init_result.attempted # <<>>
            => LET a == init_result.attempted IN
               /\ a[Len(a)] \notin store.files
               /\ \A i \in 1..(Len(a) - 1) : a[i] \in store.files
               /\ \A i, j \in 1..Len(a) : i # j => a[i] # a[j])
    /\ [][FailedBuildLeavesNoModel]_vars

\* the decoder file is absent: the fourth load failed, and the analyze call
\* that followed returned an error
C18_Witness ==
    /\ store = Dir(Artifacts \ {"decoder_model_merged.onnx"})
    /\ init_result.kind = "err"
    /\ Len(init_result.attempted) = 4
    /\ ~is_initialized
    /\ pc = "done" /\ result.kind = "err"

\* the failures of the execution engine and of the tokenizer
EngineFailures == {"vision encoder", "Error encoding", "embed_tokens", "decoder", "Decode error"}

\* while the error is the request's result, no network runs
NoRunAfterFailure ==
    (result.kind = "err" /\ result'.kind = "err")
        => (/\ vision_calls' = vision_calls
            /\ embed_calls' = embed_calls
            /\ decoder_calls' = decoder_calls)

\* C19: a failure of the vision encoder, the embedding lookup, the decoder,
\* encode or decode ends the request at once with an error that carries no
\* text; the failed operation has run once for the step that failed and
\* nothing runs after it.
C19_FailureAborts ==
    /\ [](result.kind = "err" => pc = "done" /\ result.text = NoText)
    /\ [](result.kind = "err" /\ result.msg \in EngineFailures
            => CASE result.msg = "vision encoder" ->
                      vision_calls = 1 /\ embed_calls = 0 /\ decoder_calls = 0
                 [] result.msg = "Error encoding" ->
                      vision_calls = 1 /\ embed_calls = 0 /\ decoder_calls = 0
                 [] result.msg = "embed_tokens" ->
                      /\ vision_calls = 1
                      /\ embed_calls = Len(generated_tokens) + 1
                      /\ decoder_calls = Len(generated_tokens)
                 [] result.msg = "decoder" ->
                      /\ vision_calls = 1
                      /\ decoder_calls = Len(generated_tokens) + 1
                      /\ embed_calls = decoder_calls
                 [] result.msg = "Decode error" ->
                      /\ generated_tokens # <<>>
                      /\ embed_calls <= Len(generated_tokens) + 1)
    /\ [][NoRunAfterFailure]_vars

\* the decoder fails in the second step: one token was generated, none returned
C19_Witness ==
    /\ pc = "done"
    /\ result = Err("decoder")
    /\ decoder_calls = 2
    /\ Len(generated_tokens) = 1

\* the places of the prompt at which the image placeholder is spelled
PlaceholderStarts(input) ==
    {i \in 1..(Len(input) - 2) : SubSeq(input, i, i + 2) = ImagePlaceholder}

\* C20: whatever the user text, the formatted prompt spells the image
\* placeholder exactly once, in the user turn right before the user text, and
\* its encoding holds exactly one image token id (151646), at the index
\* fusion uses.
C20_OneImageToken ==
    pc = "encoded"
        => /\ PlaceholderStarts(formatted_prompt) = {7}
           /\ SubSeq(formatted_prompt, 11, 10 + Len(user_text)) = user_text
           /\ Cardinality({i \in 1..Len(input_ids) : input_ids[i] = 151646}) = 1
           /\ input_ids[image_token_position + 1] = 151646

\* every step of a call, its start and its return included, leaves the
\* configuration as it was
CallKeepsConfig ==
    (in_flight = 1 \/ in_flight' = 1)
        => (/\ config'.max_response_length = config.max_response_length
            /\ config'.default_prompt = config.default_prompt)

\* C21: the text a call hands to the chat template is the caller's prompt
\* when one was given and the configuration's default_prompt when none was,
\* and no step of an analyze call, whether the call succeeds or fails,
\* changes max_response_length or default_prompt.
C21_PromptAndConfig ==
    /\ [](pc \in {"rgba", "features", "tokenize"}
            => /\ prompt.some => user_text = prompt.text
               /\ ~prompt.some => user_text = config.default_prompt)
    /\ [][CallKeepsConfig]_vars

\* a call without a prompt, after a call that failed: the default text
\* reaches the template
C21_Witness ==
    /\ pc = "tokenize"
    /\ ~prompt.some
    /\ user_text = <<"Describe this image briefly.">>
    /\ earlier = "error"

\* C22: with L the fused length, the k-th decoder invocation of a request
\* (k counted from 0) gets an attention mask of L + k ones; for k = 0 the
\* position ids 0 .. L-1 and the L fused embeddings; for k >= 1 the single
\* position id L + k - 1 and the single embedding of the token appended in
\* step k - 1.
C22_DecoderInputs ==
    pc \in {"loop", "check"}
        => LET L == Len(fused_embeds.rows)
               k == step
           IN /\ k = decoder_calls - (IF pc = "check" THEN 1 ELSE 0)
              /\ Len(current_attention_mask) = L + k
              /\ \A i \in 1..(L + k) : current_attention_mask[i] = 1
              /\ k = 0 => /\ Len(current_position_ids) = L
                          /\ \A i \in 1..L : current_position_ids[i] = i - 1
                          /\ current_inputs_embeds.rows = fused_embeds.rows
              /\ k >= 1 => /\ current_position_ids = <<L + k - 1>>
                           /\ current_inputs_embeds.rows = <<Row("token", generated_tokens[k])>>
                           /\ Len(generated_tokens) = k

\* the third invocation of a request with the longest fused sequence
C22_Witness ==
    /\ pc = "check"
    /\ decoder_calls = 3
    /\ Len(fused_embeds.rows) = MaxLt + max_image_tokens
    /\ current_position_ids = <<MaxLt + max_image_tokens + 1>>
    /\ Len(current_attention_mask) = MaxLt + max_image_tokens + 2

\* a step that does not stop adds one position to every tensor of the cache
CacheGrowsByOne ==
    (pc = "check" /\ pc' = "loop")
        => \A i \in 1..Len(past_key_values) : past_key_values'[i] = past_key_values[i] + 1

\* C23, as stated: the cache starts with cached_len 0 in every tensor and
\* grows by one position in each generation step that does not stop.
C23_GrowsByOnePerStep ==
    /\ [](pc = "loop" /\ step = 0 => \A i \in 1..Len(past_key_values) : past_key_values[i] = 0)
    /\ [][CacheGrowsByOne]_vars

\* a step that does not stop stores what the decoder returned, which holds
\* the step's input positions on top of those supplied; a step that stops
\* leaves the cache as it was
CacheStoresPresent ==
    /\ (pc = "check" /\ pc' = "loop")
          => /\ past_key_values' = new_past_key_values
             /\ \A i \in 1..Len(past_key_values) :
                   past_key_values'[i] = past_key_values[i] + Len(current_inputs_embeds.rows)
    /\ (pc = "check" /\ pc' = "stopped") => past_key_values' = past_key_values

\* C23, amended: the cache starts with cached_len 0 in every tensor; the
\* first step that does not stop grows it by the L positions of the fused
\* sequence and each later one by one position, the loop storing the
\* tensors the decoder returned as the new past_key_values.
C23_CacheGrowth ==
    /\ [](pc \in {"loop", "check"}
            => \A i \in 1..Len(past_key_values) :
                  past_key_values[i] = IF step = 0 THEN 0 ELSE Len(fused_embeds.rows) + step - 1)
    /\ [][CacheStoresPresent]_vars

\* two steps stored: the fused sequence and one token are cached
C23_Witness ==
    /\ pc = "loop"
    /\ step = 2
    /\ Len(fused_embeds.rows) = 2
    /\ \A i \in 1..48 : past_key_values[i] = 3

\* the names the claim gives: layer l's key and value, as sent and as returned
NamesOfLayer ==
    [l \in 0..23 |->
        [past_key |-> "past_key_values." \o ToString(l) \o ".key",
         past_value |-> "past_key_values." \o ToString(l) \o ".value",
         present_key |-> "present." \o ToString(l) \o ".key",
         present_value |-> "present." \o ToString(l) \o ".value"]]

\* what the decoder is to be sent: each name with the index of its tensor
ExpectedInputs ==
    {[name |-> n, index |-> -1] : n \in {"inputs_embeds", "position_ids", "attention_mask"}}
    \cup {[name |-> NamesOfLayer[l].past_key, index |-> l * 2] : l \in 0..23}
    \cup {[name |-> NamesOfLayer[l].past_value, index |-> l * 2 + 1] : l \in 0..23}

\* C24: throughout the loop the cache holds 2 * 24 = 48 tensors; the key of
\* layer l is the tensor at index l*2 and its value the one at l*2 + 1: each
\* is sent to the decoder under past_key_values.<l>.key / .value, once, and
\* read back into the same index from present.<l>.key / .value.
C24_CacheLayout ==
    /\ pc \in {"loop", "check", "stopped"} => Len(past_key_values) = 48
    /\ pc = "check"
         => /\ Len(new_past_key_values) = 48
            /\ Len(model_inputs) = 3 + 48
            /\ {model_inputs[k] : k \in 1..Len(model_inputs)} = ExpectedInputs
            /\ \A l \in 0..23 :
                  /\ present_names[l * 2 + 1] = NamesOfLayer[l].present_key
                  /\ present_names[l * 2 + 2] = NamesOfLayer[l].present_value

\* the second run of a request: the last layer's key, cached by the first
C24_Witness ==
    /\ pc = "check"
    /\ decoder_calls = 2
    /\ model_inputs[50] = Input("past_key_values.23.key", 46)
    /\ past_key_values[47] = Len(fused_embeds.rows)
    /\ new_past_key_values[47] = Len(fused_embeds.rows) + 1

\* the decoder returned the full cache-to-date: what it was sent and the
\* positions of its input
FullCacheReturned ==
    \A i \in 1..Len(past_key_values) :
        new_past_key_values[i] = past_key_values[i] + Len(current_inputs_embeds.rows)

\* C25: with a decoder that returns the full cache-to-date, each decoder
\* invocation gets an attention mask as long as the cached length of the
\* past_key_values it is sent plus the positions of its input embeddings,
\* and position ids cached_len, cached_len + 1, .., cached_len + input_len - 1.
C25_MaskCoversCacheAndInput ==
    pc = "check" /\ FullCacheReturned
        => LET input_len == Len(current_inputs_embeds.rows)
               cached_len == past_key_values[1]
           IN /\ \A i \in 1..Len(past_key_values) : past_key_values[i] = cached_len
              /\ Len(current_attention_mask) = cached_len + input_len
              /\ Len(current_position_ids) = input_len
              /\ \A j \in 1..input_len : current_position_ids[j] = cached_len + j - 1

\* the second invocation: one new position on top of the cached fused sequence
C25_Witness ==
    /\ pc = "check"
    /\ decoder_calls = 2
    /\ past_key_values[1] = Len(fused_embeds.rows)
    /\ Len(current_inputs_embeds.rows) = 1
    /\ new_past_key_values[1] = Len(current_attention_mask)

\* C26: the id of a step is sampled from the row of the last sequence
\* position cut to its first min(V, 151646) entries, so it is below
\* min(V, 151646); the image placeholder 151646 and the ids above it are
\* never sampled and never stand in generated_tokens.
C26_SampledBelowCap ==
    /\ pc = "check"
         => LET seq_len == decoder_logits[2]
                V == decoder_logits[3]
            IN /\ seq_len = Len(current_inputs_embeds.rows)
               /\ last_token_logits.position = seq_len - 1
               /\ last_token_logits.len = (IF V <= 151646 THEN V ELSE 151646)
               /\ 0 <= next_token_id
               /\ next_token_id < last_token_logits.len
    /\ next_token_id < 151646
    /\ \A i \in 1..Len(generated_tokens) : generated_tokens[i] < 151646

\* logits with an entry for the placeholder, cut to 151646 entries: the
\* sampled id is the last one left, after a token was generated
C26_Witness ==
    /\ pc = "check"
    /\ decoder_logits[3] = 151647
    /\ last_token_logits.len = 151646
    /\ next_token_id = 151645
    /\ Len(generated_tokens) = 1

\* the buffer is refused as too short exactly when it is shorter than the
\* product, and an image that is built holds exactly the product's bytes
ExactSizeStep ==
    pc = "rgba"
        => LET exact == Size(width * height, 0) IN
           /\ (pc' = "done" /\ result'.kind = "err"
                  /\ result'.msg = "Image data length is less than expected size")
                 <=> SizeLess(image_data.len, exact)
           /\ pc' = "features" => image'.data.len = exact
           /\ ~SizeLess(image_data.len, exact) => pc' = "features"

\* C27: for every u32 width and height the expected size that
\* rgba_to_dynamic_image compares the buffer with is the product
\* width*height*4 itself, not a wrapped-around value: the buffer is refused
\* as too short exactly when its length is below the product, and is never
\* accepted or cut against a smaller size.
C27_ExpectedSizeExact ==
    /\ [](pc = "rgba"
            => /\ expected_size(width, height, overflow_checks).kind = "ok"
               /\ expected_size(width, height, overflow_checks).size = Size(width * height, 0))
    /\ [][ExactSizeStep]_vars

\* C28: after any sequence of new, initialize (on either directory, succeeding
\* or failing), analyze_image and cleanup, is_initialized() is true exactly
\* when get_model_path() is Some, and the path is then that of the directory
\* the loaded model was built from.
C28_PathIffModel ==
    /\ is_initialized <=> get_model_path.some
    /\ is_initialized => get_model_path.path = model.data_dir
    /\ ~is_initialized => model = NoneModel

\* a model built from the second directory in place of one built from the
\* first, with which an image was analyzed
C28_Witness ==
    /\ is_initialized
    /\ get_model_path = SomePath("other")
    /\ model.data_dir = "other"
    /\ store = Dir(Artifacts)
    /\ init_result.kind = "ok"
    /\ earlier = "step cap"
    /\ pc = "idle"

\* a step of initialize that returns an error
InitializeFails == (Initialize \/ InitializeOther) /\ init_result'.kind = "err"

\* C29: an initialize that fails, in the download or in the load of the
\* model, leaves the client as it was: without a model if it had none, and
\* with the model and the model path it had, with which analyze_image still
\* runs the pipeline.
C29_FailedInitializeKeepsState ==
    /\ [][InitializeFails => model' = model /\ model_path' = model_path /\ config' = config]_vars
    /\ [](init_result.kind = "err" /\ is_initialized /\ in_flight = 0 => ENABLED AnalyzeFrameSync)
    /\ [](init_result.kind = "err" /\ is_initialized
            => model.loaded = Artifacts /\ get_model_path.path = model.data_dir)

\* the download into the first directory failed while the model of the
\* second was loaded: the call that followed returned a text
C29_Witness ==
    /\ init_result = [kind |-> "err", attempted |-> <<>>]
    /\ store.exists /\ store.files # Artifacts
    /\ is_initialized
    /\ get_model_path = SomePath("other")
    /\ pc = "done"
    /\ result.kind = "ok"

\* the files of the directory, whole or not
Existing == store.files \cup store.partial

\* what a call returned, against the directory it left
DownloadResultSound ==
    LET done == download_result.processed IN
    /\ download_result.kind = "ok"
         => /\ store.exists
            /\ \A i \in 1..4 : FASTVLM_MODELS[i] \in Existing
            /\ done = FASTVLM_MODELS
    /\ download_result.kind = "err"
         => /\ \A i \in 1..Len(done) : done[i] = FASTVLM_MODELS[i]
            /\ \A i \in 1..(Len(done) - 1) : done[i] \in Existing
            /\ done # <<>> => done[Len(done)] \notin store.files \cup download_result.skipped
            /\ download_result.skipped \subseteq Existing

\* a file left unfinished is not skipped as already there: the call that
\* comes to it fetches it again, and leaves it whole unless it fails there
Redownloaded ==
    \A name \in store.partial :
        /\ name \notin download_result'.skipped
        /\ (\E i \in 1..Len(download_result'.processed) : download_result'.processed[i] = name)
              => \/ name \in store'.files
                 \/ /\ download_result'.kind = "err"
                    /\ download_result'.processed[Len(download_result'.processed)] = name

\* C30: over any sequence of download_fastvlm_models calls with failures at
\* any point, a call returns Ok only with all four files in the directory;
\* the files are taken in the listed order and the call ends at the first
\* that fails; a file whose download broke off mid-stream is downloaded
\* again by a later call, so no Ok covers a file that is not whole.
C30_DownloadResumes ==
    /\ [](DownloadResultSound)
    /\ [][Redownloaded]_vars
    /\ [](download_result.kind = "ok" => store.partial = {} /\ store.files = Artifacts)

====
